---- MODULE Spec2Model ----
(***************************************************************************)
(* The to-do list of src/src/App.jsx: the task list held by App (todos),   *)
(* the exiting ids, the deferred removals scheduled by clearCompleted, and *)
(* the localStorage slot 'todos' that mirrors the list.                    *)
(*                                                                         *)
(* One step of the model is one event of the browser's event loop: a       *)
(* handler, the re-render it causes and the effects of that render (the    *)
(* save effect of App on [todos], the completion effect of each TodoItem   *)
(* row) run to completion before the next event.                           *)
(***************************************************************************)
EXTENDS Integers, Sequences, FiniteSets, TLC

\* ------------------------------------------------------------------ bounds
MaxRawLen == 2      \* length of a typed text
OpsMaxNow == 2      \* SpecOps: Date.now() stops advancing here
OpsMaxTodos == 2    \* SpecOps: addTodo is not offered on a longer list
ClearMaxNow == 2    \* SpecClear
ClearMaxTodos == 3
ClearMaxTimers == 2 \* SpecClear: pending clearCompleted callbacks
SaveMaxNow == 2     \* SpecSave
SaveMaxTodos == 2
SaveMaxTimers == 1
MaxStored == 2      \* SpecLoad: entries of the persisted array

\* ------------------------------------------------------------------- texts
\* A string is the sequence of its characters; " " stands for whitespace.
Chars == {" ", "a"}

TextsUpTo(n) == UNION {[1..k -> Chars] : k \in 0..n}

RawTexts == TextsUpTo(MaxRawLen)

RECURSIVE TrimStart(_)
TrimStart(s) ==
  IF s = <<>> THEN s
  ELSE IF Head(s) = " " THEN TrimStart(Tail(s)) ELSE s

RECURSIVE TrimEnd(_)
TrimEnd(s) ==
  IF s = <<>> THEN s
  ELSE IF s[Len(s)] = " " THEN TrimEnd(SubSeq(s, 1, Len(s) - 1)) ELSE s

\* trim left out
NoTrim(s) == s

\* String.prototype.trim
Trim(s) == TrimEnd(TrimStart(s))

\* ------------------------------------------------------- the storage slot
\* localStorage.getItem('todos') is null or a string.  A string is described
\* by what JSON.parse makes of it: "empty" is '', "invalid" is a text such as
\* 'not json' that JSON.parse rejects, "json" is a text that parses to value.
\* A JSON value is null, a number, an object (props: its own properties) or
\* an array (items).
Fields == {"id", "text", "completed", "createdAt"}

NullItem == [kind |-> "null"]
EmptyText == [kind |-> "string", syntax |-> "empty"]
NotJson == [kind |-> "string", syntax |-> "invalid"]
JsonText(v) == [kind |-> "string", syntax |-> "json", value |-> v]

JsonNull == [t |-> "null"]
JsonNumber(n) == [t |-> "number", n |-> n]
JsonObject(p) == [t |-> "object", props |-> p]
JsonArray(xs) == [t |-> "array", items |-> xs]

\* JSON.stringify(todos): an array of objects, each with the four properties
\* of its task, in the order of the list.
Stringify(list) ==
  JsonText(JsonArray([i \in 1..Len(list) |->
    JsonObject([id |-> list[i].id, text |-> list[i].text,
                completed |-> list[i].completed,
                createdAt |-> list[i].createdAt])]))

\* JSON.parse(text): the value, or a SyntaxError thrown.
JSONparse(item) ==
  IF item.syntax = "json" THEN [threw |-> FALSE, value |-> item.value]
  ELSE [threw |-> TRUE]

\* todo.f for an own property f; Has(o, f) is false where todo.f is undefined,
\* as it is for every f when todo is a number.
Has(o, f) == o.t = "object" /\ f \in DOMAIN o.props

\* One element of parsedTodos.map(...): a || b takes b when a is undefined or
\* falsy (0, '', false).
RepairTodo(o, clock) ==
  LET idOk == Has(o, "id") /\ o.props.id # 0
  IN [id |-> IF idOk THEN o.props.id ELSE clock,
      text |-> IF Has(o, "text") /\ o.props.text # <<>>
               THEN o.props.text ELSE <<>>,
      completed |-> IF Has(o, "completed") /\ o.props.completed
                    THEN TRUE ELSE FALSE,
      createdAt |-> IF Has(o, "createdAt") /\ o.props.createdAt # 0
                    THEN o.props.createdAt
                    ELSE IF idOk THEN o.props.id ELSE clock]

\* The body of the try block: the list returned, or an exception thrown.
\* Reading a property of a null element throws a TypeError; a number has no
\* such property and is mapped like an empty object.
LoadTry(item, clock) ==
  IF item.kind = "null" \/ item.syntax = "empty"
  THEN [threw |-> FALSE, value |-> <<>>]
  ELSE LET p == JSONparse(item) IN
    IF p.threw THEN [threw |-> TRUE]
    ELSE IF p.value.t = "array" /\ Len(p.value.items) > 0
    THEN IF \E i \in 1..Len(p.value.items) : p.value.items[i].t = "null"
         THEN [threw |-> TRUE]
         ELSE [threw |-> FALSE,
               value |-> [i \in 1..Len(p.value.items) |->
                            RepairTodo(p.value.items[i], clock)]]
    ELSE [threw |-> FALSE, value |-> <<>>]

\* the try without its catch
loadNoCatch(item, clock) ==
  LET r == LoadTry(item, clock)
  IN [escaped |-> r.threw, value |-> IF r.threw THEN <<>> ELSE r.value]

\* loadTodosFromStorage: the catch logs and falls through to return [].
\* escaped tells whether an exception leaves the function.
loadTodosFromStorage(item, clock) ==
  LET r == LoadTry(item, clock)
  IN IF r.threw THEN [escaped |-> FALSE, value |-> <<>>]
     ELSE [escaped |-> FALSE, value |-> r.value]

\* ------------------------------------------------------------- list steps
\* todos.filter(todo => todo.id !== id)
RECURSIVE deleteTodo(_, _)
deleteTodo(list, id) ==
  IF list = <<>> THEN <<>>
  ELSE IF Head(list).id # id
       THEN <<Head(list)>> \o deleteTodo(Tail(list), id)
       ELSE deleteTodo(Tail(list), id)

\* the map flipping every task
toggleEvery(list, id) ==
  [i \in 1..Len(list) |-> [list[i] EXCEPT !.completed = ~list[i].completed]]

\* todos.map(todo => todo.id === id ? {...todo, completed: !todo.completed} : todo)
toggleComplete(list, id) ==
  [i \in 1..Len(list) |->
     IF list[i].id = id
     THEN [list[i] EXCEPT !.completed = ~list[i].completed]
     ELSE list[i]]

\* todos.map(todo => todo.id === id ? {...todo, text: trimmedText} : todo)
updateTodo(list, id, trimmedText) ==
  [i \in 1..Len(list) |->
     IF list[i].id = id
     THEN [list[i] EXCEPT !.text = trimmedText]
     ELSE list[i]]

\* [...todos, newTodo]
addTodo(list, trimmedValue, t1, t2) ==
  Append(list, [id |-> t1, text |-> trimmedValue,
                completed |-> FALSE, createdAt |-> t2])

\* the map without the filter before it
everyId(list) == [i \in 1..Len(list) |-> list[i].id]

\* todos.filter(todo => todo.completed).map(todo => todo.id)
RECURSIVE completedIds(_)
completedIds(list) ==
  IF list = <<>> THEN <<>>
  ELSE IF Head(list).completed
       THEN <<Head(list).id>> \o completedIds(Tail(list))
       ELSE completedIds(Tail(list))

\* the filter with its negation lost
RECURSIVE keepCompleted(_)
keepCompleted(list) ==
  IF list = <<>> THEN <<>>
  ELSE IF Head(list).completed
       THEN <<Head(list)>> \o keepCompleted(Tail(list))
       ELSE keepCompleted(Tail(list))

\* todos.filter(todo => !todo.completed), todos being the list the callback
\* closed over
RECURSIVE removeCompleted(_)
removeCompleted(list) ==
  IF list = <<>> THEN <<>>
  ELSE IF ~Head(list).completed
       THEN <<Head(list)>> \o removeCompleted(Tail(list))
       ELSE removeCompleted(Tail(list))

\* ------------------------------------------------------------ save effect
\* What localStorage.setItem does: it stores the value, or throws an
\* exception of the given name and stores nothing.
SaveOutcomes == {"ok", "QuotaExceededError", "SecurityError"}

\* the effect reporting success without having stored the list
saveEffectSkips(cur, list, o) ==
  [slot |-> cur, error |-> IF o = "ok" THEN "none" ELSE o,
   alerted |-> (o = "QuotaExceededError"), escaped |-> FALSE]

\* The effect of useEffect(..., [todos]): try setItem; catch logs the error
\* and alerts when error.name === 'QuotaExceededError'.  cur is the slot
\* before the effect; error is "none" when setItem returned.
saveEffect(cur, list, o) ==
  IF o = "ok"
  THEN [slot |-> Stringify(list), error |-> "none",
        alerted |-> FALSE, escaped |-> FALSE]
  ELSE [slot |-> cur, error |-> o,
        alerted |-> (o = "QuotaExceededError"), escaped |-> FALSE]

\* ------------------------------------------------------------------ state
VARIABLES
  todos,       \* useState todos: sequence of tasks
  exitingIds,  \* useState exitingIds: sequence of ids
  timers,      \* pending clearCompleted callbacks, oldest first; each is the
               \* todos list its closure captured
  slot,        \* localStorage item 'todos'
  now,         \* the value Date.now() returns
  phase,       \* "mounting": rendered, effects not yet run; "ready"
  crashed,     \* an exception escaped a handler or effect
  lastOp,      \* history: the last operation, see Op
  hist,        \* history: adds minus deletes and the latest edit and toggle
               \* parity per id, while the run is add/edit/toggle/delete
               \* from an empty list
  doomed,      \* history: ids completed at the call of a clearCompleted
               \* whose callback, or a later one, is still pending
  rows,        \* the mounted TodoItem rows by key (todo.id): the
               \* todo.completed of the last render and useState wasCompleted
  played       \* history: how often the completion effect (sound and orbs)
               \* of each row fired in the last render of the list; rows
               \* where it did not fire are left out

vars == <<todos, exitingIds, timers, slot, now, phase, crashed,
          lastOp, hist, doomed, rows, played>>

\* lastOp: op names the operation; void tells that its input is one the
\* store is to ignore (blank text, an id not in the list, nothing completed);
\* save is "none" when no save ran in the step, else "ok" or the name of the
\* exception setItem threw; alert tells whether the step called alert().
Op(name, void, save, alert) ==
  [op |-> name, void |-> void, save |-> save, alert |-> alert]

IsBlank(raw) == \A i \in 1..Len(raw) : raw[i] = " "
Ids(list) == {list[i].id : i \in 1..Len(list)}
SeqToSet(xs) == {xs[i] : i \in 1..Len(xs)}

Untracked == [tracked |-> FALSE, net |-> 0, latest |-> <<>>]
Fresh == [tracked |-> TRUE, net |-> 0, latest |-> <<>>]

\* f with x mapped to v, x added to the domain when new
Put(f, x, v) == [y \in DOMAIN f \cup {x} |-> IF y = x THEN v ELSE f[y]]
Drop(f, x) == [y \in DOMAIN f \ {x} |-> f[y]]

HistAdd(id, text) ==
  IF hist.tracked
  THEN [hist EXCEPT !.net = @ + 1,
                    !.latest = Put(@, id, [text |-> text, completed |-> FALSE])]
  ELSE hist

HistDelete(id) ==
  IF hist.tracked /\ id \in Ids(todos)
  THEN [hist EXCEPT !.net = @ - 1, !.latest = Drop(@, id)]
  ELSE hist

HistToggle(id) ==
  IF hist.tracked /\ id \in DOMAIN hist.latest
  THEN [hist EXCEPT !.latest[id].completed = ~@]
  ELSE hist

HistEdit(id, text) ==
  IF hist.tracked /\ id \in DOMAIN hist.latest
  THEN [hist EXCEPT !.latest[id].text = text]
  ELSE hist

\* ------------------------------------------------------------- TodoItem rows
\* wasCompleted starting as false
rowMountFalse(todo) == FALSE

\* useState(todo.completed): wasCompleted of a row that is mounted
rowMount(todo) == todo.completed

\* One run of the effect on [todo.completed, wasCompleted]: sound and orbs
\* when todo.completed && !wasCompleted, then setWasCompleted(todo.completed)
completionEffect(completed, wasCompleted) ==
  [fired |-> completed /\ ~wasCompleted, wasCompleted |-> completed]

\* The runs of the effect until the row is stable: setWasCompleted with a new
\* value renders the row again, and the effect runs again on the new
\* wasCompleted.
RowSettle(completed, wasCompleted) ==
  LET e1 == completionEffect(completed, wasCompleted)
      again == e1.wasCompleted # wasCompleted
      e2 == completionEffect(completed, e1.wasCompleted)
  IN [wasCompleted |-> IF again THEN e2.wasCompleted ELSE e1.wasCompleted,
      count |-> (IF e1.fired THEN 1 ELSE 0)
                + (IF again /\ e2.fired THEN 1 ELSE 0)]

\* The task a row shows: the task with the row's key (the first of them
\* where tasks share an id)
RowFor(list, k) ==
  list[CHOOSE i \in 1..Len(list) :
         list[i].id = k /\ \A j \in 1..(i - 1) : list[j].id # k]

\* todos.map(todo => <TodoItem key={todo.id} .../>) over the rows rws of the
\* render before: a new key mounts a row, whose effect runs; a kept row runs
\* its effect when todo.completed has changed; a key that is gone unmounts.
RenderRows(rws, list) ==
  LET Row(k) ==
        LET t == RowFor(list, k) IN
        IF k \notin DOMAIN rws
        THEN [completed |-> t.completed,
              settled |-> RowSettle(t.completed, rowMount(t))]
        ELSE IF rws[k].completed = t.completed
             THEN [completed |-> t.completed,
                   settled |-> [wasCompleted |-> rws[k].wasCompleted,
                                count |-> 0]]
             ELSE [completed |-> t.completed,
                   settled |-> RowSettle(t.completed, rws[k].wasCompleted)]
      all == [k \in Ids(list) |-> Row(k)]
  IN [rows |-> [k \in DOMAIN all |->
                  [completed |-> all[k].completed,
                   wasCompleted |-> all[k].settled.wasCompleted]],
      played |-> [k \in {x \in DOMAIN all : all[x].settled.count > 0} |->
                    all[k].settled.count]]

Render(rws, list) ==
  LET r == RenderRows(rws, list)
  IN rows' = r.rows /\ played' = r.played

\* a failed save undoing the setTodos that caused it
CommitRollback(list, o, name, void) ==
  LET r == saveEffect(slot, list, o)
  IN /\ todos' = IF r.error = "none" THEN list ELSE todos
     /\ Render(rows, IF r.error = "none" THEN list ELSE todos)
     /\ slot' = r.slot
     /\ crashed' = r.escaped
     /\ lastOp' = Op(name, void, IF r.error = "none" THEN "ok" ELSE r.error,
                     r.alerted)

\* setTodos(list), the re-render, and the save effect the render triggers
Commit(list, o, name, void) ==
  LET r == saveEffect(slot, list, o)
  IN /\ todos' = list
     /\ Render(rows, list)
     /\ slot' = r.slot
     /\ crashed' = r.escaped
     /\ lastOp' = Op(name, void, IF r.error = "none" THEN "ok" ELSE r.error,
                     r.alerted)

\* A handler that returns before any setState
Return(name, void) ==
  /\ lastOp' = Op(name, void, "none", FALSE)
  /\ UNCHANGED <<todos, exitingIds, timers, slot, now, phase, crashed,
                 hist, doomed, rows, played>>

Ready == phase = "ready" /\ ~crashed

\* ---------------------------------------------------------------- actions
\* First render: useState(() => loadTodosFromStorage())
Loaded(item, clock) ==
  LET r == loadTodosFromStorage(item, clock)
  IN /\ slot = item
     /\ now = clock
     /\ todos = r.value
     /\ crashed = r.escaped
     /\ exitingIds = <<>>
     /\ timers = <<>>
     /\ phase = "mounting"
     /\ lastOp = Op("load", FALSE, "none", FALSE)
     /\ hist = IF r.value = <<>> THEN Fresh ELSE Untracked
     /\ doomed = {}
     /\ rows = RenderRows(<<>>, r.value).rows
     /\ played = RenderRows(<<>>, r.value).played

\* The save effect of the first render
Mount(o) ==
  /\ phase = "mounting" /\ ~crashed
  /\ Commit(todos, o, "mount", FALSE)
  /\ phase' = "ready"
  /\ UNCHANGED <<exitingIds, timers, now, hist, doomed>>

\* Time passes
Tick ==
  /\ now' = now + 1
  /\ UNCHANGED <<todos, exitingIds, timers, slot, phase, crashed,
                 lastOp, hist, doomed, rows, played>>

\* addTodo with inputValue = raw.  Date.now() is read twice, for id and for
\* createdAt; the second reading is lag ticks later.
AddTodo(raw, o, lag) ==
  /\ Ready
  /\ LET trimmedValue == Trim(raw) IN
     IF trimmedValue = <<>>
     THEN Return("add", IsBlank(raw))
     ELSE /\ now' = now + lag
          /\ Commit(addTodo(todos, trimmedValue, now, now + lag), o,
                    "add", IsBlank(raw))
          /\ hist' = HistAdd(now, trimmedValue)
          /\ UNCHANGED <<exitingIds, timers, phase, doomed>>

DeleteTodo(id, o) ==
  /\ Ready
  /\ Commit(deleteTodo(todos, id), o, "delete", id \notin Ids(todos))
  /\ hist' = HistDelete(id)
  /\ doomed' = doomed \ {id}
  /\ UNCHANGED <<exitingIds, timers, now, phase>>

ToggleComplete(id, o) ==
  /\ Ready
  /\ Commit(toggleComplete(todos, id), o, "toggle", id \notin Ids(todos))
  /\ hist' = HistToggle(id)
  /\ UNCHANGED <<exitingIds, timers, now, phase, doomed>>

\* the guard on the trimmed text left out: a blank edit stores the empty text
UpdateTodoClears(id, raw, o) ==
  /\ Ready
  /\ Commit(updateTodo(todos, id, Trim(raw)), o, "edit",
            IsBlank(raw) \/ id \notin Ids(todos))
  /\ hist' = HistEdit(id, Trim(raw))
  /\ UNCHANGED <<exitingIds, timers, now, phase, doomed>>

UpdateTodo(id, raw, o) ==
  /\ Ready
  /\ LET trimmedText == Trim(raw)
         void == IsBlank(raw) \/ id \notin Ids(todos)
     IN IF trimmedText = <<>>
        THEN Return("edit", void)
        ELSE /\ Commit(updateTodo(todos, id, trimmedText), o, "edit", void)
             /\ hist' = HistEdit(id, trimmedText)
             /\ UNCHANGED <<exitingIds, timers, now, phase, doomed>>

\* handleSaveEdit of the row of task id, editText being what the edit input
\* holds: onUpdate is updateTodo of the current render.  setIsEditing(false)
\* is state of the row only.
HandleSaveEdit(id, editText, o) ==
  /\ id \in Ids(todos)
  /\ LET trimmedText == Trim(editText)
     IN IF trimmedText # <<>>
        THEN UpdateTodo(id, trimmedText, o)
        ELSE /\ Ready
             /\ Return("edit", TRUE)

\* clearCompleted: the callback keeps the todos of the render it was made in
ClearCompleted ==
  /\ Ready
  /\ LET ids == completedIds(todos)
         void == \A i \in 1..Len(todos) : ~todos[i].completed
     IN IF Len(ids) = 0
        THEN Return("clear", void)
        ELSE /\ exitingIds' = ids
             /\ timers' = Append(timers, todos)
             /\ lastOp' = Op("clear", void, "none", FALSE)
             /\ hist' = Untracked
             /\ doomed' = doomed \cup SeqToSet(ids)
             /\ UNCHANGED <<todos, slot, now, phase, crashed, rows, played>>

\* the callback without its setExitingIds([])
TimerFireKeepsExiting(o) ==
  /\ Ready
  /\ timers # <<>>
  /\ Commit(removeCompleted(Head(timers)), o, "fire", FALSE)
  /\ timers' = Tail(timers)
  /\ doomed' = IF Tail(timers) = <<>> THEN {} ELSE doomed
  /\ UNCHANGED <<exitingIds, now, phase, hist>>

\* The oldest pending callback of clearCompleted runs (400 ms after its call)
TimerFire(o) ==
  /\ Ready
  /\ timers # <<>>
  /\ Commit(removeCompleted(Head(timers)), o, "fire", FALSE)
  /\ exitingIds' = <<>>
  /\ timers' = Tail(timers)
  /\ doomed' = IF Tail(timers) = <<>> THEN {} ELSE doomed
  /\ UNCHANGED <<now, phase, hist>>

\* The page is reloaded: pending callbacks die with the page, App is built
\* again from the slot
Reload ==
  /\ lastOp.op # "load"
  /\ LET r == loadTodosFromStorage(slot, now)
     IN /\ todos' = r.value
        /\ crashed' = r.escaped
        /\ hist' = IF r.value = <<>> THEN Fresh ELSE Untracked
        /\ Render(<<>>, r.value)
  /\ exitingIds' = <<>>
  /\ timers' = <<>>
  /\ phase' = "mounting"
  /\ lastOp' = Op("load", FALSE, "none", FALSE)
  /\ doomed' = {}
  /\ UNCHANGED <<slot, now>>

\* ---------------------------------------------------------- specification
\* The events of the page.  outs: what setItem may do; raws: the texts typed;
\* lags: how far the clock may move inside addTodo; maxNow, maxTodos,
\* maxTimers: where the clock, the list and the pending callbacks stop growing.
ListOps(outs, raws, lags, maxNow, maxTodos) ==
  \/ \E o \in outs : Mount(o)
  \/ now < maxNow /\ Tick
  \/ \E raw \in raws, o \in outs, lag \in lags :
       /\ Len(todos) < maxTodos /\ hist.net < maxTodos
       /\ now + lag <= maxNow
       /\ AddTodo(raw, o, lag)
  \/ \E id \in 1..maxNow, o \in outs : DeleteTodo(id, o)
  \/ \E id \in 1..maxNow, o \in outs : ToggleComplete(id, o)
  \/ \E id \in 1..maxNow, raw \in raws, o \in outs : UpdateTodo(id, raw, o)

\* The save button (or Enter) of a row in edit mode
RowOps(outs, raws, maxNow) ==
  \E id \in 1..maxNow, editText \in raws, o \in outs :
    HandleSaveEdit(id, editText, o)

ClearOps(outs, maxTimers) ==
  \/ Len(timers) < maxTimers /\ ClearCompleted
  \/ \E o \in outs : TimerFire(o)

\* What the slot holds when the page is first opened: nothing, or a text that
\* is not JSON.  (SpecLoad and SpecRoundTrip start from richer slots.)
InitialSlots == {NullItem, NotJson}

Init == \E item \in InitialSlots : Loaded(item, 1)

\* add, edit, toggle and delete; every save succeeds
NextOps ==
  \/ ListOps({"ok"}, RawTexts, {0}, OpsMaxNow, OpsMaxTodos)
  \/ RowOps({"ok"}, TextsUpTo(1), OpsMaxNow)

SpecOps == Init /\ [][NextOps]_vars

\* the list operations and clearCompleted; every save succeeds
NextClear ==
  \/ ListOps({"ok"}, TextsUpTo(1), {0}, ClearMaxNow, ClearMaxTodos)
  \/ ClearOps({"ok"}, ClearMaxTimers)

SpecClear == Init /\ [][NextClear]_vars

\* every operation, with saves that may fail and a clock that may move
\* between the two readings of addTodo
NextSave ==
  \/ ListOps(SaveOutcomes, TextsUpTo(1), {0, 1}, SaveMaxNow, SaveMaxTodos)
  \/ ClearOps(SaveOutcomes, SaveMaxTimers)
  \/ Reload

SpecSave == Init /\ [][NextSave]_vars

\* What an earlier session, an earlier version or another script may have
\* left in the slot: any of the four properties may be missing, a number may
\* be 0, an element null or a number.
Restrict(f, D) == [k \in D |-> f[k]]

StoredProps ==
  [id : {0, 1, 2}, text : {<<"a">>}, completed : BOOLEAN,
   createdAt : {0, 1}]

StoredEntries ==
  {JsonNull, JsonNumber(1)} \cup
  {JsonObject(Restrict(full, D)) : full \in StoredProps, D \in SUBSET Fields}

StoredSlots ==
  {NullItem, EmptyText, NotJson, JsonText(JsonNull), JsonText(JsonNumber(1)),
   JsonText(JsonObject(<<>>))} \cup
  {JsonText(JsonArray(xs)) :
     xs \in UNION {[1..n -> StoredEntries] : n \in 0..MaxStored}}

\* the page opened on such a slot, saved, and reloaded
InitLoad == \E item \in StoredSlots : Loaded(item, 3)

NextLoad == (\E o \in SaveOutcomes : Mount(o)) \/ Reload

SpecLoad == InitLoad /\ [][NextLoad]_vars

\* Save then load as functions of the list: App holding any list of tasks
\* with integer ids and createdAt, non-empty trimmed text and a boolean flag,
\* about to run its save effect; then the page is reloaded.
WellFormedTasks ==
  [id : {-1, 0, 1}, text : {<<"a">>}, completed : BOOLEAN, createdAt : {0, 1}]

WellFormedLists == UNION {[1..n -> WellFormedTasks] : n \in 0..MaxStored}

Holding(list) ==
  /\ todos = list
  /\ slot = NullItem
  /\ now = 3
  /\ crashed = FALSE
  /\ exitingIds = <<>>
  /\ timers = <<>>
  /\ phase = "mounting"
  /\ lastOp = Op("load", FALSE, "none", FALSE)
  /\ hist = Untracked
  /\ doomed = {}
  /\ rows = RenderRows(<<>>, list).rows
  /\ played = RenderRows(<<>>, list).played

InitRoundTrip == \E list \in WellFormedLists : Holding(list)

SpecRoundTrip == InitRoundTrip /\ [][NextLoad]_vars

\* ------------------------------------------------------------------ claims
Distinct(list) ==
  \A i, j \in 1..Len(list) : i # j => list[i].id # list[j].id

\* C1: from an empty list, after any run of add (non-blank), edit, toggle
\* and delete, the length of the list is the number of adds minus the number
\* of deletes of a present id, and every task carries the latest text and
\* the toggle parity recorded for its id.
C1_LengthAndFields ==
  hist.tracked =>
    /\ Len(todos) = hist.net
    /\ \A i \in 1..Len(todos) :
         /\ todos[i].id \in DOMAIN hist.latest
         /\ todos[i].text = hist.latest[todos[i].id].text
         /\ todos[i].completed = hist.latest[todos[i].id].completed

\* C2: the ids of the tasks in the list are pairwise distinct in every
\* reachable state.
C2_IdsDistinct == Distinct(todos)

IsIncomplete(t) == ~t.completed

\* C3: when clearCompleted is called on a list with a completed task and
\* its callback fires before any other operation, the list then holds
\* exactly the tasks that were incomplete at the call, in their order, and
\* the exiting set is empty.
C3_ClearThenFire ==
  [][(/\ lastOp.op = "clear" /\ ~lastOp.void
      /\ Len(timers) = 1
      /\ lastOp'.op = "fire")
     => (/\ todos' = SelectSeq(todos, IsIncomplete)
         /\ exitingIds' = <<>>)]_vars

C3_Witness ==
  /\ lastOp.op = "fire"
  /\ timers = <<>>
  /\ exitingIds = <<>>
  /\ Len(todos) = 2
  /\ todos[1].id < todos[2].id

\* C4: when the last pending callback has fired, no task that was completed
\* at the call of a clearCompleted is in the list, whatever was done in
\* between (stated for lists whose ids are distinct; a deleted task counts
\* as gone).
C4_CompletedEventuallyGone ==
  [][(/\ Len(timers) = 1 /\ timers' = <<>>
      /\ lastOp'.op = "fire"
      /\ Distinct(Head(timers)))
     => \A i \in 1..Len(todos') : todos'[i].id \notin doomed]_vars

\* The slot holds the serialization of list: a JSON array with one object
\* per task, in order, carrying the task's four fields.
SlotHolds(list) ==
  /\ slot.kind = "string" /\ slot.syntax = "json"
  /\ slot.value.t = "array"
  /\ Len(slot.value.items) = Len(list)
  /\ \A i \in 1..Len(list) :
       /\ slot.value.items[i].t = "object"
       /\ slot.value.items[i].props = list[i]

StateChanging(l) ==
  \/ l.op \in {"mount", "fire"}
  \/ l.op \in {"add", "delete", "toggle", "edit"} /\ ~l.void

SaveFailed(l) == l.save \notin {"none", "ok"}

\* C5: a save runs in every state-changing operation (add, delete, toggle,
\* edit, the deferred removal, the mount after a load), and whenever the
\* save of an operation succeeds, also after failed ones, the slot holds the
\* whole current list in order.
C5_SaveMirrorsList ==
  /\ StateChanging(lastOp) => lastOp.save # "none"
  /\ lastOp.save = "ok" => SlotHolds(todos)

C5_Witness ==
  /\ lastOp.op = "fire" /\ lastOp.save = "ok"
  /\ Len(todos) = 1
  /\ SlotHolds(todos)

\* C6: saving a well-formed list and loading it again yields the same list.
C6_RoundTrip ==
  [][(lastOp.op = "mount" /\ lastOp.save = "ok" /\ lastOp'.op = "load")
     => todos' = todos]_vars

Unusable(item) ==
  \/ item.kind = "null"
  \/ item.syntax # "json"
  \/ item.value.t # "array"
  \/ Len(item.value.items) = 0

\* C7: load yields the empty list, and no exception escapes it, when the
\* slot is absent, holds text that is not JSON, or holds JSON that is not a
\* non-empty array.
C7_LoadRecovers ==
  (lastOp.op = "load" /\ Unusable(slot)) => (todos = <<>> /\ ~crashed)

C7_Witness ==
  lastOp.op = "load" /\ slot = NotJson /\ todos = <<>> /\ ~crashed

\* C8: whatever the save of an operation does, a failure included, the
\* operation has its effect on the list and no exception escapes; this holds
\* for every step, so also for every operation after a failed save.
C8_FailedSaveKeepsList ==
  [][LET o == lastOp'.save IN
     /\ lastOp'.op = "add" =>
          \A raw \in RawTexts, lag \in {0, 1} :
            (~IsBlank(raw) /\ AddTodo(raw, o, lag)) =>
              /\ Len(todos') = Len(todos) + 1
              /\ SubSeq(todos', 1, Len(todos)) = todos
              /\ ~todos'[Len(todos')].completed
     /\ lastOp'.op = "delete" =>
          \A id \in Ids(todos) : DeleteTodo(id, o) => id \notin Ids(todos')
     /\ lastOp'.op = "toggle" =>
          \A id \in Ids(todos) :
            ToggleComplete(id, o) =>
              /\ Len(todos') = Len(todos)
              /\ \A i \in 1..Len(todos) :
                   todos[i].id = id =>
                     todos'[i].completed = ~todos[i].completed
     /\ lastOp'.op = "edit" =>
          \A id \in Ids(todos), raw \in RawTexts :
            (~IsBlank(raw) /\ UpdateTodo(id, raw, o)) =>
              /\ Len(todos') = Len(todos)
              /\ \A i \in 1..Len(todos) :
                   todos[i].id = id => todos'[i].text = Trim(raw)
     /\ lastOp'.op = "fire" =>
          (TimerFire(o) =>
             /\ todos' = SelectSeq(Head(timers), IsIncomplete)
             /\ exitingIds' = <<>>)
     /\ lastOp'.op = "clear" =>
          ((ClearCompleted /\ \E i \in 1..Len(todos) : todos[i].completed) =>
             /\ timers' = Append(timers, todos)
             /\ exitingIds' # <<>>)
     /\ ~crashed']_vars

C8_Witness ==
  /\ lastOp.op = "add" /\ lastOp.save = "SecurityError"
  /\ Len(todos) = 2
  /\ SlotHolds(<<>>)
  /\ ~crashed

\* C9: every failed write to the slot is reported to the user by an alert.
C9_FailureWarned == SaveFailed(lastOp) => lastOp.alert

\* C10: an add whose text is empty or whitespace only leaves the list as it
\* was: nothing is appended and no task changes.
C10_BlankAddKeepsList ==
  [][(lastOp'.op = "add" /\ lastOp'.void) => todos' = todos]_vars

C10_Witness ==
  lastOp.op = "add" /\ lastOp.void /\ lastOp.save = "none" /\ Len(todos) = 1

\* the typed texts that are empty or whitespace only
BlankTexts == {raw \in RawTexts : IsBlank(raw)}

\* the texts that trimming a typed non-blank text can give
TrimmedTexts == {Trim(raw) : raw \in RawTexts} \ {<<>>}

\* C11: an edit whose text is empty or whitespace only, submitted to
\* updateTodo or through the save button of the row, leaves the whole list,
\* and so the text of the task, as it was, and stores nothing.
C11_BlankEditKeepsList ==
  [][lastOp'.op = "edit" =>
       \A id \in 1..OpsMaxNow, raw \in BlankTexts :
         (UpdateTodo(id, raw, "ok") \/ HandleSaveEdit(id, raw, "ok"))
         => (todos' = todos /\ slot' = slot)]_vars

C11_Witness ==
  /\ lastOp.op = "edit" /\ lastOp.void /\ lastOp.save = "none"
  /\ Len(todos) = 1
  /\ todos[1].id = 1
  /\ todos[1].text = <<"a">>

\* C12: in every reachable state, the state right after load included, the
\* text of every task in the list is non-empty after trimming.
C12_TextNeverBlank ==
  \A i \in 1..Len(todos) : Trim(todos[i].text) # <<>>

\* The slot holds a JSON array and load has returned one task per element.
LoadedFromArray ==
  /\ lastOp.op = "load"
  /\ slot.kind = "string" /\ slot.syntax = "json"
  /\ slot.value.t = "array"
  /\ Len(slot.value.items) > 0
  /\ \A i \in 1..Len(slot.value.items) : slot.value.items[i].t # "null"

\* C13: load gives every persisted entry that has no createdAt the id of
\* that entry as createdAt, whatever the id is, and the current time only
\* when the entry has no id either.
C13_CreatedAtFromId ==
  LoadedFromArray =>
    \A i \in 1..Len(todos) :
      LET e == slot.value.items[i]
      IN ~Has(e, "createdAt") =>
           todos[i].createdAt = IF Has(e, "id") THEN e.props.id ELSE now

\* list without its k-th task
Without(list, k) == SubSeq(list, 1, k - 1) \o SubSeq(list, k + 1, Len(list))

\* C14: delete(id) of a present id removes exactly one task, the one with
\* that id, and keeps the others as they are and in their order; add appends
\* at the end; toggle and edit keep every task at its position.
C14_DeleteKeepsOrder ==
  [][LET o == lastOp'.save IN
     /\ lastOp'.op = "delete" =>
          \A id \in Ids(todos) :
            DeleteTodo(id, o) =>
              \E k \in 1..Len(todos) :
                todos[k].id = id /\ todos' = Without(todos, k)
     /\ lastOp'.op = "add" =>
          \A raw \in RawTexts :
            (~IsBlank(raw) /\ AddTodo(raw, o, 0)) =>
              /\ Len(todos') = Len(todos) + 1
              /\ SubSeq(todos', 1, Len(todos)) = todos
              /\ todos'[Len(todos')].text = Trim(raw)
     /\ lastOp'.op \in {"toggle", "edit"} =>
          \A id \in 1..OpsMaxNow, raw \in RawTexts :
            (ToggleComplete(id, o) \/ UpdateTodo(id, raw, o)) =>
              /\ Len(todos') = Len(todos)
              /\ \A i \in 1..Len(todos) : todos'[i].id = todos[i].id]_vars

\* C15: toggle(id) changes the completed flag of the task with that id and
\* nothing else, edit(id, text) changes its text and nothing else: id and
\* createdAt of every task and every field of the tasks with another id stay
\* as they were; delete, toggle and edit of an id that is not in the list
\* leave the list as it was.
C15_Frame ==
  [][LET o == lastOp'.save IN
     /\ lastOp'.op = "toggle" =>
          \A id \in 1..OpsMaxNow :
            ToggleComplete(id, o) =>
              /\ Len(todos') = Len(todos)
              /\ \A i \in 1..Len(todos) :
                   /\ todos'[i].id = todos[i].id
                   /\ todos'[i].createdAt = todos[i].createdAt
                   /\ todos'[i].text = todos[i].text
                   /\ todos'[i].completed =
                        IF todos[i].id = id THEN ~todos[i].completed
                        ELSE todos[i].completed
              /\ id \notin Ids(todos) => todos' = todos
     /\ lastOp'.op = "edit" =>
          \A id \in 1..OpsMaxNow, text \in TrimmedTexts :
            UpdateTodo(id, text, o) =>
              /\ Len(todos') = Len(todos)
              /\ \A i \in 1..Len(todos) :
                   /\ todos'[i].id = todos[i].id
                   /\ todos'[i].createdAt = todos[i].createdAt
                   /\ todos'[i].completed = todos[i].completed
                   /\ todos'[i].text =
                        IF todos[i].id = id THEN text ELSE todos[i].text
              /\ id \notin Ids(todos) => todos' = todos
     /\ lastOp'.op = "delete" =>
          \A id \in (1..OpsMaxNow) \ Ids(todos) :
            DeleteTodo(id, o) => todos' = todos]_vars

C15_Witness ==
  /\ lastOp.op = "toggle" /\ ~lastOp.void
  /\ Len(todos) = 2
  /\ todos[1].id # todos[2].id
  /\ todos[1].text # todos[2].text
  /\ todos[1].completed /\ ~todos[2].completed

\* The slot holds a non-empty JSON array and load has run.
LoadOfArray ==
  /\ lastOp.op = "load"
  /\ slot.kind = "string" /\ slot.syntax = "json"
  /\ slot.value.t = "array"
  /\ Len(slot.value.items) > 0

\* C16: load of a persisted non-empty array yields one task per entry, in
\* the order of the array, and every id, text and completed that an entry
\* has is the one of its task.
C16_LoadKeepsEntries ==
  LoadOfArray =>
    /\ Len(todos) = Len(slot.value.items)
    /\ \A i \in 1..Len(todos) :
         LET e == slot.value.items[i]
         IN /\ Has(e, "id") => todos[i].id = e.props.id
            /\ Has(e, "text") => todos[i].text = e.props.text
            /\ Has(e, "completed") => todos[i].completed = e.props.completed

\* C17: when the only pending callback of clearCompleted fires, it removes
\* the exiting tasks from the current list and leaves every other task of
\* the current list as it is, whatever was added, edited, toggled or deleted
\* since the call (stated for lists whose ids are distinct).
C17_WindowOpsSurvive ==
  [][(/\ Len(timers) = 1 /\ TimerFire(lastOp'.save)
      /\ Distinct(todos) /\ Distinct(Head(timers))) =>
       LET Stays(t) == t.id \notin SeqToSet(exitingIds)
       IN todos' = SelectSeq(todos, Stays)]_vars

\* ids of the tasks that are in both lists, incomplete in old and complete
\* in new
Rising(old, new) ==
  {k \in Ids(old) \cap Ids(new) :
     ~RowFor(old, k).completed /\ RowFor(new, k).completed}

\* C18: in every render of the list, the completion effect fires once in
\* the row of each task that went from incomplete to complete and in no other
\* row: not in a row first shown for a completed task, as after load, and
\* not for a task that went from complete to incomplete (stated for lists
\* whose ids are distinct, a row being keyed by the id).
C18_EffectOncePerCompletion ==
  [][(/\ Distinct(todos) /\ Distinct(todos')
      /\ (todos' # todos \/ played' # played \/ lastOp'.op = "load"))
     => played' = [k \in IF lastOp'.op = "load" THEN {}
                         ELSE Rising(todos, todos') |-> 1]]_vars

C18_Witness ==
  /\ lastOp.op = "toggle" /\ ~lastOp.void
  /\ Len(todos) = 2
  /\ todos[1].completed /\ todos[2].completed
  /\ DOMAIN played = {todos[2].id}
  /\ played[todos[2].id] = 1

\* C19: in every reachable state, a non-empty exiting set comes with a
\* pending callback of clearCompleted; so when the last pending callback has
\* fired the exiting set is empty.
C19_ExitingHasCallback == exitingIds # <<>> => timers # <<>>

C19_Witness ==
  /\ Len(timers) = 2
  /\ exitingIds # <<>>
  /\ lastOp.op = "clear" /\ ~lastOp.void

\* C20: clearCompleted called while no task is completed changes nothing:
\* the list, the exiting set, the pending callbacks and the slot are as
\* before.
C20_ClearNothingIsNoOp ==
  [][((\A i \in 1..Len(todos) : ~todos[i].completed) /\ ClearCompleted)
     => (/\ todos' = todos /\ exitingIds' = exitingIds
         /\ timers' = timers /\ slot' = slot)]_vars

C20_Witness ==
  /\ lastOp.op = "clear" /\ lastOp.void
  /\ todos # <<>>
  /\ Len(timers) = 1
  /\ exitingIds # <<>>

====
